---- MODULE Spec2Model ----
(***************************************************************************)
(* Model of scripts/genvert.py: the base-62 encoder encode_num and the     *)
(* document emitter of the __main__ block.                                 *)
(*                                                                         *)
(* Text is modelled character by character: a string is a sequence of     *)
(* one-character strings, a line of output is one such sequence, and the  *)
(* standard output is the sequence of the lines printed so far.            *)
(***************************************************************************)
EXTENDS Integers, Sequences, FiniteSets, TLC

(***************************************************************************)
(* Characters and number formatting                                        *)
(***************************************************************************)

\* The printable ASCII characters of code points 32..95 and 97..126, in order
\* (code point 96 is not used by the program and is left out).
AsciiLow ==
    << " ", "!", "\"", "#", "$", "%", "&", "'", "(", ")", "*", "+", ",", "-", ".", "/",
       "0", "1", "2", "3", "4", "5", "6", "7", "8", "9", ":", ";", "<", "=", ">", "?",
       "@", "A", "B", "C", "D", "E", "F", "G", "H", "I", "J", "K", "L", "M", "N", "O",
       "P", "Q", "R", "S", "T", "U", "V", "W", "X", "Y", "Z", "[", "\\", "]", "^", "_" >>

AsciiHigh ==
    << "a", "b", "c", "d", "e", "f", "g", "h", "i", "j", "k", "l", "m", "n", "o",
       "p", "q", "r", "s", "t", "u", "v", "w", "x", "y", "z", "{", "|", "}", "~" >>

\* chr(x) for a printable code point x.
chr(x) == IF x < 96 THEN AsciiLow[x - 31] ELSE AsciiHigh[x - 96]

\* ord(c) for a printable character c.
ord(c) ==
    IF \E k \in 1..Len(AsciiLow) : AsciiLow[k] = c
    THEN 31 + CHOOSE k \in 1..Len(AsciiLow) : AsciiLow[k] = c
    ELSE 96 + CHOOSE k \in 1..Len(AsciiHigh) : AsciiHigh[k] = c

\* range(a, b): the integers a, a+1, ..., b-1 in order.
range(a, b) == [k \in 1..(IF b > a THEN b - a ELSE 0) |-> a + k - 1]

\* '%d' % n and '{}'.format(n) for a machine-size integer n: its decimal digits,
\* most significant first, with a leading minus sign when n is negative.
RECURSIVE FormatInt(_)
FormatInt(n) ==
    IF n < 0 THEN <<"-">> \o FormatInt(-n)
    ELSE IF n < 10 THEN <<chr(ord("0") + n)>>
    ELSE FormatInt(n \div 10) \o <<chr(ord("0") + (n % 10))>>

\* ''.join(parts): the concatenation of a list of strings.
RECURSIVE Join(_)
Join(parts) == IF parts = <<>> THEN <<>> ELSE Head(parts) \o Join(Tail(parts))

\* KEY_ALPHABET: 'a'..'z', then 'A'..'Z', then the strings '0'..'9'.
KEY_ALPHABET ==
    [k \in 1..26 |-> <<chr(range(ord("a"), ord("z") + 1)[k])>>]
    \o [k \in 1..26 |-> <<chr(range(ord("A"), ord("Z") + 1)[k])>>]
    \o [k \in 1..10 |-> FormatInt(range(0, 10)[k])]

(***************************************************************************)
(* Python integers and floats                                              *)
(*                                                                         *)
(* A Python int is unbounded, so it is modelled as a sign and a magnitude *)
(* held as a sequence of limbs, least significant first, each limb in     *)
(* 0..Base-1, with no most significant zero limb (zero is <<>>).           *)
(***************************************************************************)

\* Bits per limb of the representation of a magnitude.
LimbBits == 24

Base == 2^LimbBits

\* A magnitude without most significant zero limbs.
RECURSIVE Norm(_)
Norm(m) ==
    IF m = <<>> THEN <<>>
    ELSE IF m[Len(m)] = 0 THEN Norm(SubSeq(m, 1, Len(m) - 1))
    ELSE m

\* The magnitude of a machine-size natural number.
RECURSIVE FromNat(_)
FromNat(n) == IF n = 0 THEN <<>> ELSE <<n % Base>> \o FromNat(n \div Base)

\* The Python int of a machine-size integer.
PyInt(n) == [neg |-> n < 0, mag |-> FromNat(IF n < 0 THEN -n ELSE n)]

\* x > 0 for a Python int x.
IsPositive(x) == ~x.neg /\ x.mag # <<>>

\* Number of bits of a machine-size natural number (0 for 0).
RECURSIVE BitLenNat(_)
BitLenNat(n) == IF n = 0 THEN 0 ELSE 1 + BitLenNat(n \div 2)

\* int.bit_length of a magnitude.
BitLen(m) == IF m = <<>> THEN 0 ELSE LimbBits * (Len(m) - 1) + BitLenNat(m[Len(m)])

\* Bit k (k >= 0) of a magnitude.
Bit(m, k) ==
    LET j == (k \div LimbBits) + 1
    IN  IF j > Len(m) THEN 0 ELSE (m[j] \div 2^(k % LimbBits)) % 2

\* m * 2^s for s >= 0.
ShiftLeft(m, s) ==
    LET a == s \div LimbBits
        b == s % LimbBits
        limb(j) == IF j >= 1 /\ j <= Len(m) THEN m[j] ELSE 0
        moved == [j \in 1..(Len(m) + 1) |->
                    (limb(j) % 2^(LimbBits - b)) * 2^b + (limb(j - 1) \div 2^(LimbBits - b))]
    IN  IF m = <<>> THEN <<>> ELSE Norm([j \in 1..a |-> 0] \o moved)

\* floor(m / 2^s) for s >= 0.
ShiftRight(m, s) ==
    LET a == s \div LimbBits
        b == s % LimbBits
        limb(j) == IF j >= 1 /\ j <= Len(m) THEN m[j] ELSE 0
    IN  IF a >= Len(m) THEN <<>>
        ELSE Norm([j \in 1..(Len(m) - a) |->
                    (limb(j + a) \div 2^b) + (limb(j + a + 1) % 2^b) * 2^(LimbBits - b)])

\* m + v for a machine-size v in 0..Base-1, added at limb j.
RECURSIVE AddAt(_, _, _)
AddAt(m, j, v) ==
    IF v = 0 THEN m
    ELSE IF j > Len(m) THEN Append(m, v)
    ELSE LET t == m[j] + v
         IN  [AddAt(m, j + 1, t \div Base) EXCEPT ![j] = t % Base]

\* m * k + c for machine-size k, c with k * Base within machine range and c < k.
RECURSIVE MulAdd(_, _, _)
MulAdd(m, k, c) ==
    IF m = <<>> THEN (IF c = 0 THEN <<>> ELSE <<c>>)
    ELSE LET t == Head(m) * k + c
         IN  Norm(<<t % Base>> \o MulAdd(Tail(m), k, t \div Base))

\* Long division of the limbs j, j-1, ..., 1 of m by d, given the quotient and
\* remainder acc of the limbs above j.
RECURSIVE DivModFrom(_, _, _, _)
DivModFrom(m, d, j, acc) ==
    IF j = 0 \/ acc.r >= d THEN acc
    ELSE LET cur == acc.r * Base + m[j]
         IN  DivModFrom(m, d, j - 1, [q |-> <<cur \div d>> \o acc.q, r |-> cur % d])

\* divmod(m, d) for a machine-size d > 0 with d * Base within machine range:
\* the quotient (a magnitude) and the remainder (machine-size).
DivMod(m, d) ==
    LET dm == DivModFrom(m, d, Len(m), [q |-> <<>>, r |-> 0])
    IN  [q |-> Norm(dm.q), r |-> dm.r]

\* x % d for a Python int x >= 0 and a machine-size d > 0.
PyMod(x, d) == DivMod(x.mag, d).r

\* floor(m * 2^f / d) for any integer f, with how the discarded fraction
\* compares with one half: above it (gt), or exactly it (tie).
Scaled(m, d, f) ==
    IF f >= 0
    THEN LET dm == DivMod(ShiftLeft(m, f), d)
         IN  [fl |-> dm.q, gt |-> 2 * dm.r > d, tie |-> 2 * dm.r = d]
    ELSE LET dm == DivMod(m, d)
             s == -f
             half == Bit(dm.q, s - 1) = 1
             sticky == ShiftLeft(ShiftRight(dm.q, s - 1), s - 1) # dm.q \/ dm.r # 0
         IN  [fl |-> ShiftRight(dm.q, s), gt |-> half /\ sticky, tie |-> half /\ ~sticky]

\* Significand bits of a Python float (IEEE 754 binary64).
MantDig == 53

\* Largest binary exponent of a finite Python float: floats are below 2^MaxExp.
MaxExp == 1024

\* x / d (true division) for a Python int x > 0 and a machine-size d > 0: the
\* float nearest to the exact quotient, ties to the even significand, as the
\* value man * 2^exp; ovf when that float is not finite (OverflowError).
TrueDiv(x, d) ==
    LET e0 == BitLen(x.mag) - BitLenNat(d)
        f1 == (MantDig - 1) - e0
        s1 == Scaled(x.mag, d, f1)
        f  == IF BitLen(s1.fl) = MantDig THEN f1 ELSE f1 + 1
        sc == IF f = f1 THEN s1 ELSE Scaled(x.mag, d, f)
        up == sc.gt \/ (sc.tie /\ Bit(sc.fl, 0) = 1)
        man == IF up THEN AddAt(sc.fl, 1, 1) ELSE sc.fl
    IN  [ovf |-> BitLen(man) - f > MaxExp, man |-> man, exp |-> -f]

\* int(y) for a finite Python float y >= 0: truncation towards zero.
IntOfFloat(y) ==
    [neg |-> FALSE,
     mag |-> IF y.exp >= 0 THEN ShiftLeft(y.man, y.exp) ELSE ShiftRight(y.man, -y.exp)]

(***************************************************************************)
(* encode_num                                                              *)
(***************************************************************************)

\* The most symbols the while loop of encode_num produces.
MaxSymbols == 8

\* The frame of a call encode_num(x): the argument as passed (arg), the local
\* hex_num, the list ans, and where the call is: in the loop, returned, or
\* left by an exception.
EncodeCall(x) ==
    [arg |-> x, hex_num |-> x, ans |-> <<>>, pc |-> "while", result |-> <<>>, exc |-> "none"]

\* The while condition: hex_num > 0 and len(ans) < 8.
WhileCond(f) == IsPositive(f.hex_num) /\ Len(f.ans) < MaxSymbols

\* The loop body with the new symbol put first: ans.insert(0, ...) in place of
\* ans.append(...).
LoopBody_Prepend(f) ==
    LET p    == PyMod(f.hex_num, Len(KEY_ALPHABET))
        ans2 == <<KEY_ALPHABET[p + 1]>> \o f.ans
        y    == TrueDiv(f.hex_num, Len(KEY_ALPHABET))
    IN  IF y.ovf
        THEN [f EXCEPT !.ans = ans2, !.pc = "raised", !.exc = "OverflowError"]
        ELSE [f EXCEPT !.ans = ans2, !.hex_num = IntOfFloat(y)]

\* One pass of the loop body.
LoopBody(f) ==
    LET p    == PyMod(f.hex_num, Len(KEY_ALPHABET))
        ans2 == Append(f.ans, KEY_ALPHABET[p + 1])
        y    == TrueDiv(f.hex_num, Len(KEY_ALPHABET))
    IN  IF y.ovf
        THEN [f EXCEPT !.ans = ans2, !.pc = "raised", !.exc = "OverflowError"]
        ELSE [f EXCEPT !.ans = ans2, !.hex_num = IntOfFloat(y)]

\* return ''.join([str(x) for x in ans]); str of a string is the string.
ReturnJoin(f) == [f EXCEPT !.pc = "returned", !.result = Join(f.ans)]

\* The call run to its end.
RECURSIVE RunEncode(_)
RunEncode(f) ==
    IF f.pc # "while" THEN f
    ELSE IF WhileCond(f) THEN RunEncode(LoopBody(f))
    ELSE ReturnJoin(f)

\* encode_num(x) as the emitter uses it: the token returned.
encode_num(x) == RunEncode(EncodeCall(x)).result

(***************************************************************************)
(* The emitter (the __main__ block)                                        *)
(***************************************************************************)

\* '<doc id="foo">'
DocOpenTag == <<"<", "d", "o", "c", " ", "i", "d", "=", "\"", "f", "o", "o", "\"", ">">>

\* '</doc>'
DocCloseTag == <<"<", "/", "d", "o", "c", ">">>

\* '</p>'
ParCloseTag == <<"<", "/", "p", ">">>

\* f'<p id="par{p_idx}">'
ParOpenTag(p_idx) ==
    <<"<", "p", " ", "i", "d", "=", "\"", "p", "a", "r">> \o FormatInt(p_idx) \o <<"\"", ">">>

\* '<nl />'
NlTag == <<"<", "n", "l", " ", "/", ">">>

\* '<m/>'
MTag == <<"<", "m", "/", ">">>

\* The data line with the first two format arguments the wrong way round:
\* .format(encode_num(i), i, i).
DataLine_ArgsSwapped(i) ==
    encode_num(PyInt(i)) \o <<"\t">> \o FormatInt(i) \o <<"\t", "d", "a", "t", "a", ":">>
    \o FormatInt(i)

\* '{}\t{}\tdata:{}'.format(i, encode_num(i), i)
DataLine(i) ==
    FormatInt(i) \o <<"\t">> \o encode_num(PyInt(i)) \o <<"\t", "d", "a", "t", "a", ":">>
    \o FormatInt(i)

\* The integers the for loop iterates over.
LoopRange == range(1, 21)

\* The argument of time.sleep, in milliseconds.
SleepMs == 4

\* How many milliseconds a sleep may overrun its argument.
MaxJitter == 1

\* The durations one time.sleep(0.004) may take: 0 when the delay is stubbed
\* out, else the argument or more.
Delays == {0} \cup (SleepMs .. (SleepMs + MaxJitter))

\* A run of the script before its first statement: the lines printed (out),
\* the locals p_idx and i (0: not yet bound) with the number of items the for
\* loop has taken (taken), and how long the latest sleep took (slept).
EmitStart == [pc |-> "start", out |-> <<>>, p_idx |-> 0, i |-> 0, taken |-> 0, slept |-> 0]

\* print('<doc id="foo">'); p_idx = 1
BeginOp(r) == [r EXCEPT !.out = Append(r.out, DocOpenTag), !.p_idx = 1, !.pc = "for"]

\* for i in range(1, 21): bind the next item, or leave the loop.
ForNextOp(r) ==
    IF r.taken < Len(LoopRange)
    THEN [r EXCEPT !.taken = r.taken + 1, !.i = LoopRange[r.taken + 1], !.pc = "paragraph"]
    ELSE [r EXCEPT !.pc = "close"]

\* The paragraph step testing i % 10 in place of (i-1) % 10.
ParagraphOp_WrongPhase(r) ==
    IF r.i % 10 = 0
    THEN LET closed == IF r.p_idx > 1 THEN Append(r.out, ParCloseTag) ELSE r.out
         IN  [r EXCEPT !.out = Append(closed, ParOpenTag(r.p_idx)),
                       !.p_idx = r.p_idx + 1,
                       !.pc = "data"]
    ELSE [r EXCEPT !.pc = "data"]

\* The paragraph step without the print('</p>').
ParagraphOp_NoClose(r) ==
    IF (r.i - 1) % 10 = 0
    THEN [r EXCEPT !.out = Append(r.out, ParOpenTag(r.p_idx)),
                   !.p_idx = r.p_idx + 1,
                   !.pc = "data"]
    ELSE [r EXCEPT !.pc = "data"]

\* if (i-1) % 10 == 0: close the open paragraph, if any, and open the next.
ParagraphOp(r) ==
    IF (r.i - 1) % 10 = 0
    THEN LET closed == IF r.p_idx > 1 THEN Append(r.out, ParCloseTag) ELSE r.out
         IN  [r EXCEPT !.out = Append(closed, ParOpenTag(r.p_idx)),
                       !.p_idx = r.p_idx + 1,
                       !.pc = "data"]
    ELSE [r EXCEPT !.pc = "data"]

\* The data line carrying how long the latest sleep took in place of the
\* second i.
PrintDataOp_WithDuration(r) ==
    [r EXCEPT !.out = Append(r.out, FormatInt(r.i) \o <<"\t">> \o encode_num(PyInt(r.i))
                                    \o <<"\t", "d", "a", "t", "a", ":">> \o FormatInt(r.slept)),
              !.pc = "markers"]

\* print('{}\t{}\tdata:{}'.format(i, encode_num(i), i))
PrintDataOp(r) == [r EXCEPT !.out = Append(r.out, DataLine(r.i)), !.pc = "markers"]

\* The marker step testing i % 5 == 1 for <m/>.
MarkersOp_WrongResidue(r) ==
    LET afterNl == IF r.i % 5 = 0 THEN Append(r.out, NlTag) ELSE r.out
        afterM  == IF r.i % 5 = 1 THEN Append(afterNl, MTag) ELSE afterNl
    IN  [r EXCEPT !.out = afterM, !.pc = "sleep"]

\* if i % 5 == 0: print('<nl />'); if i % 5 == 2: print('<m/>')
MarkersOp(r) ==
    LET afterNl == IF r.i % 5 = 0 THEN Append(r.out, NlTag) ELSE r.out
        afterM  == IF r.i % 5 = 2 THEN Append(afterNl, MTag) ELSE afterNl
    IN  [r EXCEPT !.out = afterM, !.pc = "sleep"]

\* time.sleep(0.004), taking d milliseconds.
SleepOp(r, d) == [r EXCEPT !.slept = d, !.pc = "for"]

\* print('</doc>')
EndOp(r) == [r EXCEPT !.out = Append(r.out, DocCloseTag), !.pc = "done"]

\* The next statement of a run, a sleep taking d milliseconds.
EmitStep(r, d) ==
    CASE r.pc = "start"     -> BeginOp(r)
      [] r.pc = "for"       -> ForNextOp(r)
      [] r.pc = "paragraph" -> ParagraphOp(r)
      [] r.pc = "data"      -> PrintDataOp(r)
      [] r.pc = "markers"   -> MarkersOp(r)
      [] r.pc = "sleep"     -> SleepOp(r, d)
      [] r.pc = "close"     -> EndOp(r)
      [] OTHER              -> r

(***************************************************************************)
(* State and specifications                                                *)
(***************************************************************************)

\* run: a run of the script.  run2: a second run of it, used when two runs are
\* compared.  enc: a call of encode_num on its own.
VARIABLES run, run2, enc

vars == <<run, run2, enc>>

\* No call of encode_num in progress.
NoCall == [EncodeCall(PyInt(0)) EXCEPT !.pc = "idle"]

Init == run = EmitStart /\ run2 = EmitStart /\ enc = NoCall

Begin     == run.pc = "start"     /\ run' = BeginOp(run)     /\ UNCHANGED <<run2, enc>>
ForNext   == run.pc = "for"       /\ run' = ForNextOp(run)   /\ UNCHANGED <<run2, enc>>
Paragraph == run.pc = "paragraph" /\ run' = ParagraphOp(run) /\ UNCHANGED <<run2, enc>>
PrintData == run.pc = "data"      /\ run' = PrintDataOp(run) /\ UNCHANGED <<run2, enc>>
Markers   == run.pc = "markers"   /\ run' = MarkersOp(run)   /\ UNCHANGED <<run2, enc>>
Sleep     == run.pc = "sleep"     /\ (\E d \in Delays : run' = SleepOp(run, d))
                                  /\ UNCHANGED <<run2, enc>>
End       == run.pc = "close"     /\ run' = EndOp(run)       /\ UNCHANGED <<run2, enc>>

Next == Begin \/ ForNext \/ Paragraph \/ PrintData \/ Markers \/ Sleep \/ End

\* One run of the script.
Spec == Init /\ [][Next]_vars

\* Two runs of the script stepped side by side, each sleep of each run taking
\* a duration of its own.
StepBoth ==
    /\ run.pc # "done" \/ run2.pc # "done"
    /\ \E d1 \in Delays, d2 \in Delays :
          run' = EmitStep(run, d1) /\ run2' = EmitStep(run2, d2)
    /\ UNCHANGED enc

SpecTwo == Init /\ [][StepBoth]_vars

(***************************************************************************)
(* encode_num on its own, over a set of arguments                          *)
(***************************************************************************)

\* Arguments 0..MaxSmall are all tried.
MaxSmall == 130

\* Arguments -MaxNeg..-1 are all tried.
MaxNeg == 3

\* Arguments around 62^k are tried for k in 1..MaxDigits.
MaxDigits == 9

\* Arguments 2^e are tried for e up to MaxExp + MaxExtraBits.
MaxExtraBits == 7

\* 62^k as a magnitude.
RECURSIVE PowAlphabet(_)
PowAlphabet(k) ==
    IF k = 0 THEN <<1>> ELSE MulAdd(PowAlphabet(k - 1), Len(KEY_ALPHABET), 0)

\* 62^k - 1 as a magnitude: k digits, each the largest.
RECURSIVE PowAlphabetLess1(_)
PowAlphabetLess1(k) ==
    IF k = 0 THEN <<>>
    ELSE MulAdd(PowAlphabetLess1(k - 1), Len(KEY_ALPHABET), Len(KEY_ALPHABET) - 1)

\* The magnitudes tried beyond the small ones: around the powers of 62, around
\* the precision of a float, where the quotient by 62 is no longer exact as a
\* float, and around the largest float.
LargeMagnitudes ==
    UNION {{PowAlphabetLess1(k), PowAlphabet(k), AddAt(PowAlphabet(k), 1, 1),
            MulAdd(PowAlphabet(k), 2, 0)} : k \in 1..MaxDigits}
    \cup {ShiftLeft(<<1>>, e) : e \in (MantDig - 1)..(MantDig + 1)}
    \cup {MulAdd(ShiftLeft(<<1>>, e), Len(KEY_ALPHABET), Len(KEY_ALPHABET) - 1) :
            e \in (MantDig - 6)..(MantDig - 3)}
    \cup {ShiftLeft(<<1>>, e) : e \in (MaxExp + 4)..(MaxExp + MaxExtraBits)}

Arguments ==
    {PyInt(n) : n \in (-MaxNeg)..MaxSmall}
    \cup {[neg |-> FALSE, mag |-> m] : m \in LargeMagnitudes}
    \cup {[neg |-> TRUE, mag |-> PowAlphabet(MaxSymbols)]}

InitEnc == run = EmitStart /\ run2 = EmitStart /\ enc \in {EncodeCall(x) : x \in Arguments}

\* One pass of the while loop.
Loop == enc.pc = "while" /\ WhileCond(enc) /\ enc' = LoopBody(enc) /\ UNCHANGED <<run, run2>>

\* The while condition fails: the token is returned.
Return == enc.pc = "while" /\ ~WhileCond(enc) /\ enc' = ReturnJoin(enc) /\ UNCHANGED <<run, run2>>

NextEnc == Loop \/ Return

SpecEnc == InitEnc /\ [][NextEnc]_vars

(***************************************************************************)
(* Reading the output back                                                 *)
(***************************************************************************)

DigitChars == <<"0", "1", "2", "3", "4", "5", "6", "7", "8", "9">>

IsDigits(cs) == cs # <<>> /\ \A k \in 1..Len(cs) : \E v \in 1..10 : DigitChars[v] = cs[k]

\* The number a sequence of decimal digits denotes.
RECURSIVE ParseInt(_)
ParseInt(cs) ==
    IF cs = <<>> THEN 0
    ELSE 10 * ParseInt(SubSeq(cs, 1, Len(cs) - 1))
         + (CHOOSE v \in 0..9 : DigitChars[v + 1] = cs[Len(cs)])

\* A decimal numeral as printed: digits, with no leading zero.
IsDecimal(cs) == IsDigits(cs) /\ (Len(cs) > 1 => cs[1] # "0")

Tabs(line) == {k \in 1..Len(line) : line[k] = "\t"}

Tab1(line) == CHOOSE k \in Tabs(line) : \A t \in Tabs(line) : k <= t
Tab2(line) == CHOOSE k \in Tabs(line) : \A t \in Tabs(line) : k >= t

Field1(line) == SubSeq(line, 1, Tab1(line) - 1)
Field2(line) == SubSeq(line, Tab1(line) + 1, Tab2(line) - 1)
Field3(line) == SubSeq(line, Tab2(line) + 1, Len(line))

\* A data line: three fields separated by two tabs, the first a decimal number.
IsData(line) == Cardinality(Tabs(line)) = 2 /\ IsDecimal(Field1(line))

\* The sequence number a data line carries in its first field.
DataIndex(line) == ParseInt(Field1(line))

ParOpenPrefix == <<"<", "p", " ", "i", "d", "=", "\"">>

\* A paragraph-opening line: <p id="...">.
IsParOpen(line) ==
    /\ Len(line) >= Len(ParOpenPrefix) + 2
    /\ SubSeq(line, 1, Len(ParOpenPrefix)) = ParOpenPrefix
    /\ SubSeq(line, Len(line) - 1, Len(line)) = <<"\"", ">">>

\* The identifier of a paragraph-opening line.
ParId(line) == SubSeq(line, Len(ParOpenPrefix) + 1, Len(line) - 2)

IsParClose(line) == line = <<"<", "/", "p", ">">>

IsNl(line) == line = <<"<", "n", "l", " ", "/", ">">>

IsM(line) == line = <<"<", "m", "/", ">">>

Opens(out)  == {j \in 1..Len(out) : IsParOpen(out[j])}
Closes(out) == {j \in 1..Len(out) : IsParClose(out[j])}
Datas(out)  == {j \in 1..Len(out) : IsData(out[j])}

\* How many of the lines with index in S come at or before line j.
Rank(S, j) == Cardinality({k \in S : k <= j})

\* Paragraphs open after line j: opening lines less closing lines among 1..j.
Depth(out, j) == Rank(Opens(out), j) - Rank(Closes(out), j)

\* The data lines of the paragraph opened at line j: those after j with no
\* other opening line in between.
BlockOf(out, j) ==
    {k \in Datas(out) : k > j /\ \A o \in Opens(out) : ~(j < o /\ o < k)}

\* The alphabet as the decoder reads it: a-z are 0..25, A-Z 26..51, 0-9 52..61.
DecodeAlphabet ==
    << "a", "b", "c", "d", "e", "f", "g", "h", "i", "j", "k", "l", "m",
       "n", "o", "p", "q", "r", "s", "t", "u", "v", "w", "x", "y", "z",
       "A", "B", "C", "D", "E", "F", "G", "H", "I", "J", "K", "L", "M",
       "N", "O", "P", "Q", "R", "S", "T", "U", "V", "W", "X", "Y", "Z",
       "0", "1", "2", "3", "4", "5", "6", "7", "8", "9" >>

SymbolIndex(c) == (CHOOSE k \in 1..Len(DecodeAlphabet) : DecodeAlphabet[k] = c) - 1

\* The sum over the positions k (from 0) of SymbolIndex(tok[k+1]) * 62^k.
RECURSIVE Decode(_)
Decode(tok) ==
    IF tok = <<>> THEN <<>>
    ELSE MulAdd(Decode(Tail(tok)), Len(DecodeAlphabet), SymbolIndex(Head(tok)))

\* a >= b for magnitudes.
GeMag(a, b) ==
    \/ Len(a) > Len(b)
    \/ /\ Len(a) = Len(b)
       /\ \/ a = b
          \/ \E j \in 1..Len(a) : a[j] > b[j] /\ \A k \in (j + 1)..Len(a) : a[k] = b[k]

\* The call of encode_num has ended, by a return or by an exception.
Ended == enc.pc \in {"returned", "raised"}

(***************************************************************************)
(* Properties of the emitter                                               *)
(***************************************************************************)

\* C1: the complete output starts with <doc id="foo"> and ends with </doc>;
\* there are as many </p> lines as <p ...> lines, every data line lies inside
\* a paragraph that is closed later, each paragraph holds 10 data lines, and
\* the last paragraph is closed by a </p> printed after the loop, right before
\* </doc>.
C1_DocumentWellFormed ==
    run.pc = "done" =>
        LET out == run.out
        IN  /\ out[1] = DocOpenTag
            /\ out[Len(out)] = DocCloseTag
            /\ Cardinality(Closes(out)) = Cardinality(Opens(out))
            /\ \A j \in Opens(out) : Cardinality(BlockOf(out, j)) = 10
            /\ \A k \in Datas(out) :
                  Depth(out, k) = 1 /\ \E c \in Closes(out) : c > k
            /\ IsParClose(out[Len(out) - 1])

\* C2: the complete output has exactly 2 paragraph-opening lines, with the
\* identifiers par1 and par2 in that order; an opening line stands exactly
\* before the data lines for 1 and 11; a </p> stands right before every opening
\* line but the first; each paragraph holds exactly 10 data lines.
C2_TwoParagraphs ==
    run.pc = "done" =>
        LET out == run.out
        IN  /\ Cardinality(Opens(out)) = 2
            /\ \A j \in Opens(out) :
                  /\ SubSeq(ParId(out[j]), 1, 3) = <<"p", "a", "r">>
                  /\ IsDecimal(SubSeq(ParId(out[j]), 4, Len(ParId(out[j]))))
                  /\ ParseInt(SubSeq(ParId(out[j]), 4, Len(ParId(out[j]))))
                        = Rank(Opens(out), j)
                  /\ j < Len(out) /\ IsData(out[j + 1])
                  /\ DataIndex(out[j + 1]) \in {1, 11}
                  /\ (Rank(Opens(out), j) > 1 <=> IsParClose(out[j - 1]))
                  /\ Cardinality(BlockOf(out, j)) = 10
            /\ \A k \in Datas(out) :
                  DataIndex(out[k]) \in {1, 11} => (k - 1) \in Opens(out)

\* The run has ended, having opened two paragraphs and closed the first.
C2_Witness ==
    /\ run.pc = "done"
    /\ run.p_idx = 3
    /\ Cardinality(Opens(run.out)) = 2
    /\ Cardinality(Closes(run.out)) = 1

\* C3: in the complete output a <nl /> line stands right after the data line
\* for i exactly when i is one of 5, 10, 15, 20, and a <m/> line right after
\* the data line for i exactly when i is one of 2, 7, 12, 17; a marker stands
\* nowhere else, and no data line is followed by both.
C3_Markers ==
    run.pc = "done" =>
        LET out == run.out
            after(j) == out[j - 1]
        IN  /\ \A j \in 1..Len(out) :
                  /\ IsNl(out[j]) =>
                        j > 1 /\ IsData(after(j)) /\ DataIndex(after(j)) % 5 = 0
                  /\ IsM(out[j]) =>
                        j > 1 /\ IsData(after(j)) /\ DataIndex(after(j)) % 5 = 2
                  /\ IsData(out[j]) /\ DataIndex(out[j]) % 5 = 0 =>
                        j < Len(out) /\ IsNl(out[j + 1])
                  /\ IsData(out[j]) /\ DataIndex(out[j]) % 5 = 2 =>
                        j < Len(out) /\ IsM(out[j + 1])
            /\ {DataIndex(after(j)) : j \in {k \in 2..Len(out) : IsNl(out[k])}}
                  = {5, 10, 15, 20}
            /\ {DataIndex(after(j)) : j \in {k \in 2..Len(out) : IsM(out[k])}}
                  = {2, 7, 12, 17}

\* The run has ended with markers of both kinds printed.
C3_Witness ==
    /\ run.pc = "done"
    /\ \E j \in 1..Len(run.out) : IsNl(run.out[j])
    /\ \E j \in 1..Len(run.out) : IsM(run.out[j])

\* C4: the complete output has exactly one data line for each i in 1..20, in
\* increasing order of i; the k-th data line is the decimal numeral of k, a
\* tab, the token encode_num(k), a tab, and data: followed by the decimal
\* numeral of k.
C4_DataLines ==
    run.pc = "done" =>
        LET out == run.out
        IN  /\ Cardinality(Datas(out)) = 20
            /\ \A j \in 1..Len(out) : Tabs(out[j]) # {} => IsData(out[j])
            /\ \A j \in Datas(out) :
                  LET k == Rank(Datas(out), j)
                      payload == Field3(out[j])
                  IN  /\ DataIndex(out[j]) = k
                      /\ Field2(out[j]) = encode_num(PyInt(k))
                      /\ SubSeq(payload, 1, 5) = <<"d", "a", "t", "a", ":">>
                      /\ IsDecimal(SubSeq(payload, 6, Len(payload)))
                      /\ ParseInt(SubSeq(payload, 6, Len(payload))) = k

\* The run has ended with the data line for 20 printed, its token one symbol.
C4_Witness ==
    /\ run.pc = "done"
    /\ \E j \in Datas(run.out) :
          DataIndex(run.out[j]) = 20 /\ Len(Field2(run.out[j])) = 1

\* C10: at every point of a run the paragraphs opened less the paragraphs
\* closed is 0 or 1; a </p> is printed only when it is 1; a data line or a
\* marker is printed only when it is 1.
C10_NoNesting ==
    LET out == run.out
    IN  \A j \in 1..Len(out) :
          /\ Depth(out, j) \in {0, 1}
          /\ IsParClose(out[j]) => Depth(out, j - 1) = 1
          /\ IsData(out[j]) \/ IsNl(out[j]) \/ IsM(out[j]) => Depth(out, j - 1) = 1

\* A data line and a marker have been printed in the second paragraph.
C10_Witness ==
    \E j \in Datas(run.out) :
        /\ Rank(Opens(run.out), j) = 2
        /\ j < Len(run.out)
        /\ IsM(run.out[j + 1])

(***************************************************************************)
(* Two runs compared                                                       *)
(***************************************************************************)

C5_RoundTrip ==
    /\ Ended
    /\ IsPositive(enc.arg)
    /\ ~GeMag(enc.arg.mag, PowAlphabet(MaxSymbols))
    => enc.pc = "returned" /\ Decode(enc.result) = enc.arg.mag

\* The call for 62^8 - 1 has returned a token of 8 symbols.
C5_Witness ==
    /\ enc.pc = "returned"
    /\ enc.arg = [neg |-> FALSE, mag |-> PowAlphabetLess1(MaxSymbols)]
    /\ Len(enc.result) = MaxSymbols

\* C6: for an argument n >= 0 the call returns a token, which is the empty
\* string if and only if n is 0.
C6_EmptyIffZero ==
    Ended /\ ~enc.arg.neg =>
        enc.pc = "returned" /\ (enc.result = <<>> <=> enc.arg.mag = <<>>)

\* C7: for an argument n >= 0 the call returns a token of at most 8 symbols;
\* for n >= 62^8 the token has exactly 8 symbols and the loop has stopped with
\* the remaining value above 0.
C7_AtMostEightSymbols ==
    Ended /\ ~enc.arg.neg =>
        /\ enc.pc = "returned"
        /\ Len(enc.result) <= MaxSymbols
        /\ GeMag(enc.arg.mag, PowAlphabet(MaxSymbols)) =>
              Len(enc.result) = MaxSymbols /\ IsPositive(enc.hex_num)

\* C8: for an argument n < 0 the call ends with an InvalidInput error and
\* returns no token.
C8_NegativeRejected ==
    Ended /\ enc.arg.neg /\ enc.arg.mag # <<>> =>
        enc.pc = "raised" /\ enc.exc = "InvalidInput"

====
